---------------------------- MODULE Spec2Model ----------------------------
(***************************************************************************)
(* A model of the documentation tooling of leptos-use:                     *)
(*   docs/add_version_to_docs.py        the Release Doc Updater            *)
(*   docs/book/post_build.py            the Demo Builder / Post-Build      *)
(*                                      Splicer                            *)
(*   template/modify_files.py           the Scaffold Generator             *)
(*   docs/book/src/extract_doc_comment.py  the Comment Extractor, Link     *)
(*                                      Rewriter and Type Scanner          *)
(*                                                                         *)
(* Texts are sequences of one-character strings, so that Python's string   *)
(* operations (split, replace, splitlines, strip, startswith, the regular  *)
(* expressions) are computed position by position as the code computes     *)
(* them.  Two characters cannot be written as TLA+ string literals and are *)
(* named: BT is the backtick and ROCKET the emoji of the changelog         *)
(* heading.  DOCS_BASE stands for the URL prefix                           *)
(* https://docs.rs/leptos-use/latest/leptos_use, which no pattern of the   *)
(* code looks into.                                                        *)
(*                                                                         *)
(* Each tool is a batch program of its own; each has its own specification *)
(* (SpecRelease, SpecSplice, SpecScaffold, SpecExtract) over its own       *)
(* variables, the other tools' variables staying at their idle values.     *)
(***************************************************************************)
EXTENDS Integers, Sequences, FiniteSets, TLC

VARIABLES
    \* ---- Release Doc Updater (add_version_to_docs.py)
    cargo,        \* Cargo.toml: the versions main() reads from it
    today,        \* datetime.today() formatted %Y-%m-%d, for the current run
    argv,         \* sys.argv of the current run
    readme,       \* contents of README.md
    changelog,    \* contents of CHANGELOG.md
    rpc,          \* position of main(): "readme", "changelog", "done", "exited"
    rexit,        \* process exit code of the current run
    readme0,      \* README.md as it was when the current run started
    changelog0,   \* CHANGELOG.md as it was when the current run started
    rruns,        \* number of runs started so far
    \* ---- Post-Build Splicer (post_build.py)
    pages,        \* the listing main() iterates: records [file, category, example]
    filter,       \* sys.argv[1] of post_build.py, or None
    dist,         \* examples/<name>/dist/index.html per page, once built
    demo,         \* book/<category>/<name>/demo/index.html per page, once copied
    book,         \* book/<category>/<name>.html per page
    book0,        \* the book pages as the renderer left them
    idx,          \* index in pages of the page being processed
    spc,          \* position: "build", "copy", "splice", "links", "done", "exited"
    sexit,        \* process exit code
    codes,        \* exit codes of the builds run so far, in order
    html,         \* build_and_copy_demo's local html after reading the demo
    \* ---- Scaffold Generator (modify_files.py)
    fname,        \* args.function_name of the current run
    category,     \* args.category of the current run
    clog,         \* contents of CHANGELOG.md
    librs,        \* contents of src/lib.rs
    summary,      \* contents of docs/book/src/SUMMARY.md
    workspace,    \* contents of examples/Cargo.toml
    summary0,     \* SUMMARY.md as it was when the current run started
    gpc,          \* position of main(): the modify_* about to run, "done", "crashed"
    inserted,     \* function names of the completed and current runs, in order
    \* ---- Comment Extractor (extract_doc_comment.py)
    lines,        \* f.readlines() of the source file
    module,       \* the module part of argv[1], or None
    pos,          \* number of lines the loop has consumed
    in_code_block,
    doc_comment_started,
    initial_doc_finished,
    printed,      \* the doc-body lines printed so far
    linkIn,       \* the lines handed to process_line so far
    types,        \* the list types
    xpc           \* "loop", "done"

relVars == <<cargo, today, argv, readme, changelog, rpc, rexit, readme0, changelog0, rruns>>
spVars  == <<pages, filter, dist, demo, book, book0, idx, spc, sexit, codes, html>>
scVars  == <<fname, category, clog, librs, summary, workspace, summary0, gpc, inserted>>
exVars  == <<lines, module, pos, in_code_block, doc_comment_started,
             initial_doc_finished, printed, linkIn, types, xpc>>
vars    == <<relVars, spVars, scVars, exVars>>

None == <<"NoneType">>
BT == "backtick"
ROCKET == "rocket"
DOCS_BASE == <<"https://docs.rs/leptos-use/latest/leptos_use">>

-----------------------------------------------------------------------------
(* Python's string operations on texts.  Positions are 1-based here.        *)

Min(S) == CHOOSE m \in S : \A n \in S : m <= n

IsSpace(ch) == ch \in {" ", "\n", "\t"}

\* s[from:] in Python terms, with from 1-based
Tail_(s, from) == SubSeq(s, from, Len(s))

\* whether p occurs in s at position i
MatchAt(s, i, p) ==
    /\ i >= 1
    /\ i + Len(p) - 1 <= Len(s)
    /\ SubSeq(s, i, i + Len(p) - 1) = p

\* str.startswith
StartsWith(s, p) == MatchAt(s, 1, p)

\* str.endswith
EndsWith(s, p) == Len(s) >= Len(p) /\ MatchAt(s, Len(s) - Len(p) + 1, p)

\* str.find from position from: the first position of p, or 0
Find(s, p, from) ==
    LET hits == {i \in from..(Len(s) - Len(p) + 1) : MatchAt(s, i, p)}
    IN  IF hits = {} THEN 0 ELSE Min(hits)

\* p in s
Contains(s, p) == Find(s, p, 1) # 0

\* str.replace(old, new): every occurrence, leftmost first, not overlapping
RECURSIVE Replace(_, _, _)
Replace(s, old, new) ==
    LET i == Find(s, old, 1)
    IN  IF i = 0 THEN s
        ELSE SubSeq(s, 1, i - 1) \o new \o Replace(Tail_(s, i + Len(old)), old, new)

\* str.split(sep)
RECURSIVE Split(_, _)
Split(s, sep) ==
    LET i == Find(s, sep, 1)
    IN  IF i = 0 THEN <<s>>
        ELSE <<SubSeq(s, 1, i - 1)>> \o Split(Tail_(s, i + Len(sep)), sep)

\* str.split(sep, 1)
Split1(s, sep) ==
    LET i == Find(s, sep, 1)
    IN  IF i = 0 THEN <<s>>
        ELSE <<SubSeq(s, 1, i - 1), Tail_(s, i + Len(sep))>>

\* sep.join(parts)
RECURSIVE Join(_, _)
Join(parts, sep) ==
    IF parts = <<>> THEN <<>>
    ELSE IF Len(parts) = 1 THEN parts[1]
    ELSE parts[1] \o sep \o Join(Tail(parts), sep)

\* str.splitlines(): the lines without their line ends, no empty last line
splitlines(s) ==
    IF s = <<>> THEN <<>>
    ELSE LET parts == Split(s, <<"\n">>)
         IN  IF parts[Len(parts)] = <<>> THEN SubSeq(parts, 1, Len(parts) - 1)
             ELSE parts

\* f.readlines(): the lines with their line ends
readlines(s) ==
    LET parts == Split(s, <<"\n">>)
        n     == Len(parts)
    IN  [k \in 1..(IF parts[n] = <<>> THEN n - 1 ELSE n) |->
            IF k < n THEN parts[k] \o <<"\n">> ELSE parts[k]]

\* str.lstrip, str.rstrip, str.strip
RECURSIVE lstrip(_)
lstrip(s) == IF s # <<>> /\ IsSpace(s[1]) THEN lstrip(Tail(s)) ELSE s

RECURSIVE rstrip(_)
rstrip(s) ==
    IF s # <<>> /\ IsSpace(s[Len(s)]) THEN rstrip(SubSeq(s, 1, Len(s) - 1)) ELSE s

strip(s) == rstrip(lstrip(s))

\* list.insert(i, x) with i 0-based; an index past the end appends
ListInsert(l, i, x) ==
    LET k == IF i > Len(l) THEN Len(l) ELSE i
    IN  SubSeq(l, 1, k) \o <<x>> \o SubSeq(l, k + 1, Len(l))

-----------------------------------------------------------------------------
(* Release Doc Updater: docs/add_version_to_docs.py                          *)

MaxRuns == 2

\* A version string used as a regular expression, matched at position i: every
\* character stands for itself except ".", which matches any character but a
\* line end.
RegexAt(pat, s, i) ==
    /\ i >= 1
    /\ i + Len(pat) - 1 <= Len(s)
    /\ \A k \in 1..Len(pat) :
          IF pat[k] = "." THEN s[i + k - 1] # "\n" ELSE s[i + k - 1] = pat[k]

\* re.search(rf"^\|[^|]+\| {leptos_version}", line) is not None
MatchesLeptosRow(leptos_version, line) ==
    LET bars == {j \in 2..Len(line) : line[j] = "|"}
    IN  /\ Len(line) >= 1
        /\ line[1] = "|"
        /\ bars # {}
        /\ Min(bars) >= 3
        /\ Min(bars) + 1 <= Len(line)
        /\ line[Min(bars) + 1] = " "
        /\ RegexAt(leptos_version, line, Min(bars) + 2)

\* re.search(rf"^\| .*? {crate_version}\s*\| {leptos_version}", row) is not None
HasCrateVersion(crate_version, leptos_version, row) ==
    /\ Len(row) >= 2
    /\ row[1] = "|"
    /\ row[2] = " "
    /\ \E p \in 3..Len(row) :
          /\ \A k \in 3..(p - 1) : row[k] # "\n"
          /\ row[p] = " "
          /\ RegexAt(crate_version, row, p + 1)
          /\ \E q \in (p + 1 + Len(crate_version))..Len(row) :
                /\ \A k \in (p + 1 + Len(crate_version))..(q - 1) : IsSpace(row[k])
                /\ row[q] = "|"
                /\ q + 1 <= Len(row)
                /\ row[q + 1] = " "
                /\ RegexAt(leptos_version, row, q + 2)

\* index = table_row.index("|", 1); while index > 2 and table_row[index - 1] == " ":
\* index -= 1.  The result is the 0-based index, the length of table_row[:index].
RECURSIVE TrimIndex(_, _)
TrimIndex(row, index) ==
    IF index > 2 /\ row[index] = " " THEN TrimIndex(row, index - 1) ELSE index

InsertIndex(row) == TrimIndex(row, Find(row, <<"|">>, 2) - 1)

add_to_compat_table(leptos_version, crate_version, original_text) ==
    LET ls    == splitlines(original_text)
        last  == ls[Len(ls)]
        row   == <<"|", " ">> \o crate_version \o <<" ", "|", " ">> \o leptos_version \o <<" ", "|">>
        index == InsertIndex(last)
    IN  IF ~MatchesLeptosRow(leptos_version, last)
        THEN Join(Append(ls, row), <<"\n">>) \o <<"\n">>
        ELSE IF HasCrateVersion(crate_version, leptos_version, last)
        THEN original_text
        ELSE Join([ls EXCEPT ![Len(ls)] =
                      SubSeq(last, 1, index) \o <<",", " ">> \o crate_version
                          \o Tail_(last, index + 1)],
                  <<"\n">>) \o <<"\n">>

replace_in_changelog(crate_version, date, original_text) ==
    Replace(original_text, <<"#", "#", " ", "[", "U", "n", "r", "e", "l", "e", "a", "s", "e", "d", "]", " ", "-">>,
            <<"#", "#", " ", "[">> \o crate_version \o <<"]", " ", "-", " ">> \o date)

\* crate_version_short and crate_version_long of main()
crate_version_short(c) == c.major \o <<".">> \o c.minor
crate_version_long(c)  == c.major \o <<".">> \o c.minor \o <<".">> \o c.patch

\* len(sys.argv) > 1 and sys.argv[1] == "--check"
IsCheck(av) == Len(av) > 1 /\ av[2] = "--check"

\* len(sys.argv) == 1
IsApply(av) == Len(av) = 1

Argvs == {<<"add_version_to_docs.py">>,
          <<"add_version_to_docs.py", "--check">>,
          <<"add_version_to_docs.py", "--dry">>}

Dates == {<<"2026-11-01">>, <<"2026-11-02">>}

Cargos == [leptos : {<<"0", ".", "6">>, <<"0", ".", "7">>}, major : {<<"0">>}, minor : {<<"9">>, <<"1", "0">>},
           patch : {<<"0">>}]

Readmes == {<<"|", " ", "C", "r", "a", "t", "e", " ", "|", " ", "L", "e", "p", "t", "o", "s", " ", "|", "\n">>,
            <<"|", " ", "0", ".", "9", " ", "|", " ", "0", ".", "6", " ", "|", "\n">>,
            <<"|", " ", "0", ".", "9", " ", "|", " ", "0", ".", "6", " ", "|">>,
            <<"|", " ", "0", ".", "8", ",", " ", "0", ".", "9", " ", "|", " ", "0", ".", "6", " ", "|", "\n", "|", " ", "0", ".", "1", "0", " ", "|", " ", "0", ".", "7", " ", "|", "\n">>,
            <<"|", " ", "0", ".", "9", ",", " ", "0", ".", "1", "0", " ", "|", " ", "0", ".", "6", " ", "|", "\n">>}

Changelogs == {<<"#", " ", "C", "\n", "#", "#", " ", "[", "U", "n", "r", "e", "l", "e", "a", "s", "e", "d", "]", " ", "-", " ", "\n", "-", " ", "x", "\n">>,
               <<"#", " ", "C", "\n", "#", "#", " ", "[", "0", ".", "9", ".", "0", "]", " ", "-", " ">> \o <<"2026-11-01">> \o <<"\n", "-", " ", "x", "\n">>,
               <<"#", " ", "C", "\n">>}

\* the other tools' files and state are not touched
RelFrame == UNCHANGED <<spVars, scVars, exVars>>

RelIdle ==
    /\ cargo = [leptos |-> <<>>, major |-> <<>>, minor |-> <<>>, patch |-> <<>>]
    /\ today = <<>> /\ argv = <<>> /\ readme = <<>> /\ changelog = <<>>
    /\ rpc = "idle" /\ rexit = 0 /\ readme0 = <<>> /\ changelog0 = <<>> /\ rruns = 0

RelInit ==
    /\ cargo \in Cargos
    /\ today \in Dates
    /\ argv \in Argvs
    /\ readme \in Readmes
    /\ changelog \in Changelogs
    /\ rpc = "readme"
    /\ rexit = 0
    /\ readme0 = readme
    /\ changelog0 = changelog
    /\ rruns = 1

\* ReadmeStep with the write moved before the --check test and made unconditional
ReadmeStepWritesFirst ==
    /\ rpc = "readme"
    /\ LET text == add_to_compat_table(cargo.leptos, crate_version_short(cargo), readme)
       IN  /\ readme' = text
           /\ IF IsCheck(argv) /\ readme # text
              THEN rpc' = "exited" /\ rexit' = 1
              ELSE rpc' = "changelog" /\ rexit' = rexit
    /\ UNCHANGED <<cargo, today, argv, changelog, readme0, changelog0, rruns>>
    /\ RelFrame

\* main(), lines 20-36: README.md is read and the table updated; --check quits
\* with 1 on a difference; without arguments the file is written.
ReadmeStep ==
    /\ rpc = "readme"
    /\ LET text == add_to_compat_table(cargo.leptos, crate_version_short(cargo), readme)
       IN  IF IsCheck(argv) /\ readme # text
           THEN /\ rpc' = "exited"
                /\ rexit' = 1
                /\ readme' = readme
           ELSE /\ rpc' = "changelog"
                /\ rexit' = rexit
                /\ readme' = IF IsApply(argv) THEN text ELSE readme
    /\ UNCHANGED <<cargo, today, argv, changelog, readme0, changelog0, rruns>>
    /\ RelFrame

\* main(), lines 38-54: the same for CHANGELOG.md.
ChangelogStep ==
    /\ rpc = "changelog"
    /\ LET text == replace_in_changelog(crate_version_long(cargo), today, changelog)
       IN  IF IsCheck(argv) /\ changelog # text
           THEN /\ rpc' = "exited"
                /\ rexit' = 1
                /\ changelog' = changelog
           ELSE /\ rpc' = "done"
                /\ rexit' = rexit
                /\ changelog' = IF IsApply(argv) THEN text ELSE changelog
    /\ UNCHANGED <<cargo, today, argv, readme, readme0, changelog0, rruns>>
    /\ RelFrame

\* The tool is run again, on the files the last run left.
Rerun ==
    /\ rpc \in {"done", "exited"}
    /\ rruns < MaxRuns
    /\ argv' \in Argvs
    /\ today' \in Dates
    /\ rpc' = "readme"
    /\ rexit' = 0
    /\ readme0' = readme
    /\ changelog0' = changelog
    /\ rruns' = rruns + 1
    /\ UNCHANGED <<cargo, readme, changelog>>
    /\ RelFrame

RelNext == ReadmeStep \/ ChangelogStep \/ Rerun

-----------------------------------------------------------------------------
(* Demo Builder and Post-Build Splicer: docs/book/post_build.py              *)

MaxPages == 3

Absent == <<"no such file">>

\* re.split("<body[^>]*>", s): the texts around every match of the pattern
RECURSIVE ReSplitBody(_)
ReSplitBody(s) ==
    LET opens == {i \in 1..Len(s) :
                     /\ MatchAt(s, i, <<"<", "b", "o", "d", "y">>)
                     /\ \E j \in (i + 5)..Len(s) : s[j] = ">"}
    IN  IF opens = {} THEN <<s>>
        ELSE LET i == Min(opens)
                 j == Min({k \in (i + 5)..Len(s) : s[k] = ">"})
             IN  <<SubSeq(s, 1, i - 1)>> \o ReSplitBody(Tail_(s, j + 1))

\* name = md_name[:-3]
PageName(md_name) == SubSeq(md_name, 1, Len(md_name) - 3)

\* html = f.read().replace("/demo", f"./{name}/demo"), line 40
RewriteDemoPaths(name, text) ==
    Replace(text, <<"/", "d", "e", "m", "o">>, <<".", "/">> \o name \o <<"/", "d", "e", "m", "o">>)

\* SpliceText with the book page's fragments put before the demo's
SpliceSwapped(demo_html, book_html) ==
    LET demo_head   == Split(Split(demo_html, <<"<", "h", "e", "a", "d", ">">>)[2], <<"<", "/", "h", "e", "a", "d", ">">>)[1]
        demo_body   == Split(Split(demo_html, <<"<", "b", "o", "d", "y", ">">>)[2], <<"<", "/", "b", "o", "d", "y", ">">>)[1]
        head_split  == Split(book_html, <<"<", "h", "e", "a", "d", ">">>)
        target_head == Split(head_split[2], <<"<", "/", "h", "e", "a", "d", ">">>)[1]
        body_split  == Split(ReSplitBody(book_html)[2], <<"<", "/", "b", "o", "d", "y", ">">>)
        target_body == body_split[1]
    IN  head_split[1] \o <<" ", "\n", "<", "h", "e", "a", "d", ">", "\n", " ", " ", " ", " ">> \o target_head \o <<"\n", " ", " ", " ", " ">> \o demo_head
            \o <<"\n", "<", "/", "h", "e", "a", "d", ">", "\n", "<", "b", "o", "d", "y", ">", "\n", " ", " ", " ", " ">> \o target_body \o <<"\n", " ", " ", " ", " ">> \o demo_body
            \o <<"\n", "<", "/", "b", "o", "d", "y", ">", "\n">> \o body_split[2]

\* the text written to the book page, lines 39-63
SpliceText(demo_html, book_html) ==
    LET demo_head   == Split(Split(demo_html, <<"<", "h", "e", "a", "d", ">">>)[2], <<"<", "/", "h", "e", "a", "d", ">">>)[1]
        demo_body   == Split(Split(demo_html, <<"<", "b", "o", "d", "y", ">">>)[2], <<"<", "/", "b", "o", "d", "y", ">">>)[1]
        head_split  == Split(book_html, <<"<", "h", "e", "a", "d", ">">>)
        target_head == Split(head_split[2], <<"<", "/", "h", "e", "a", "d", ">">>)[1]
        body_split  == Split(ReSplitBody(book_html)[2], <<"<", "/", "b", "o", "d", "y", ">">>)
        target_body == body_split[1]
    IN  head_split[1] \o <<" ", "\n", "<", "h", "e", "a", "d", ">", "\n", " ", " ", " ", " ">> \o demo_head \o <<"\n", " ", " ", " ", " ">> \o target_head
            \o <<"\n", "<", "/", "h", "e", "a", "d", ">", "\n", "<", "b", "o", "d", "y", ">", "\n", " ", " ", " ", " ">> \o demo_body \o <<"\n", " ", " ", " ", " ">> \o target_body
            \o <<"\n", "<", "/", "b", "o", "d", "y", ">", "\n">> \o body_split[2]

\* rewrite_links, lines 75-85
CleanLinks(text) ==
    Replace(Replace(Replace(text, <<"f", "n", "@", "c", "r", "a", "t", "e", ":", ":">>, <<>>), <<"c", "r", "a", "t", "e", ":", ":">>, <<>>), <<"f", "n", "@">>, <<>>)

\* BuildFailed for a build whose exit code is not looked at
IgnoresFailure(code) == FALSE

\* if code != 0, line 27
BuildFailed(code) == code # 0

\* file.endswith(".md") and (len(sys.argv) == 1 or (sys.argv[1] in file)), line 15
Selected(file, flt) == EndsWith(file, <<".", "m", "d">>) /\ (flt = None \/ Contains(file, flt))

\* The pieces book pages and demo pages are made of.
Pre     == {<<>>, <<"<", "h", "t", "m", "l", ">">>}
Heads   == {<<"<", "l", "i", "n", "k", " ", "h", "r", "e", "f", "=", "b", ">">>, <<"<", "t", "i", "t", "l", "e", ">", "f", "n", "@", "t", "<", "/", "t", "i", "t", "l", "e", ">">>}
Mids    == {<<>>, <<"\n">>}
Tags    == {<<"<", "b", "o", "d", "y", ">">>, <<"<", "b", "o", "d", "y", " ", "c", "l", "a", "s", "s", "=", "x", ">">>}
Bodies  == {<<"<", "p", ">", "c", "r", "a", "t", "e", ":", ":", "f", "<", "/", "p", ">">>, <<"<", "p", ">", "b", "<", "/", "p", ">">>}
Posts   == {<<>>, <<"<", "/", "h", "t", "m", "l", ">">>}
DHeads  == {<<"<", "s", "c", "r", "i", "p", "t", " ", "s", "r", "c", "=", "/", "d", "e", "m", "o", "/", "a", ">">>, <<"<", "s", "c", "r", "i", "p", "t", " ", "s", "r", "c", "=", ".", "/", "d", "e", "m", "o", "/", "a", ">">>}
DBodies == {<<"<", "i", ">", "d", "<", "/", "i", ">">>}

Parts == [pre : Pre, head : Heads \cup DHeads, mid : Mids, tag : Tags,
          body : Bodies \cup DBodies, post : Posts]

Assemble(p) ==
    p.pre \o <<"<", "h", "e", "a", "d", ">">> \o p.head \o <<"<", "/", "h", "e", "a", "d", ">">> \o p.mid \o p.tag \o p.body
        \o <<"<", "/", "b", "o", "d", "y", ">">> \o p.post

BookDocs ==
    {Assemble([pre |-> <<"<", "h", "t", "m", "l", ">">>, head |-> <<"<", "l", "i", "n", "k", " ", "h", "r", "e", "f", "=", "b", ">">>, mid |-> <<"\n">>,
               tag |-> <<"<", "b", "o", "d", "y", " ", "c", "l", "a", "s", "s", "=", "x", ">">>, body |-> <<"<", "p", ">", "c", "r", "a", "t", "e", ":", ":", "f", "<", "/", "p", ">">>,
               post |-> <<"<", "/", "h", "t", "m", "l", ">">>]),
     Assemble([pre |-> <<>>, head |-> <<"<", "t", "i", "t", "l", "e", ">", "f", "n", "@", "t", "<", "/", "t", "i", "t", "l", "e", ">">>, mid |-> <<>>,
               tag |-> <<"<", "b", "o", "d", "y", ">">>, body |-> <<"<", "p", ">", "b", "<", "/", "p", ">">>, post |-> <<>>])}

DemoDocs ==
    {Assemble([pre |-> <<"<", "h", "t", "m", "l", ">">>, head |-> h, mid |-> <<>>, tag |-> <<"<", "b", "o", "d", "y", ">">>,
               body |-> <<"<", "i", ">", "d", "<", "/", "i", ">">>, post |-> <<"<", "/", "h", "t", "m", "l", ">">>]) : h \in DHeads}

BuildCodes == {0, 1, 2}

Files == {<<"a", ".", "m", "d">>, <<"b", ".", "m", "d">>, <<"a", "b", ".", "m", "d">>, <<"a", ".", "t", "x", "t">>}

Categories == {<<"e", "l">>}

Listings ==
    {l \in UNION {[1..n -> [file : Files, category : Categories, example : BOOLEAN]]
                     : n \in 1..MaxPages} :
        \A i, j \in DOMAIN l : i < j => l[i].file # l[j].file}

\* the other tools' files and state are not touched
SpFrame == UNCHANGED <<relVars, scVars, exVars>>

SpIdle ==
    /\ pages = <<>> /\ filter = None /\ dist = <<>> /\ demo = <<>> /\ book = <<>>
    /\ book0 = <<>> /\ idx = 0 /\ spc = "idle" /\ sexit = 0 /\ codes = <<>>
    /\ html = <<>>

SpInit ==
    /\ pages \in Listings
    /\ filter \in {None, <<"a">>}
    /\ dist = [i \in DOMAIN pages |-> Absent]
    /\ demo = [i \in DOMAIN pages |-> Absent]
    /\ book \in [DOMAIN pages -> BookDocs]
    /\ book0 = book
    /\ idx = 1
    /\ spc = "page"
    /\ sexit = 0
    /\ codes = <<>>
    /\ html = <<>>

\* whether the loop of main() builds the page at idx
Eligible == idx <= Len(pages) /\ Selected(pages[idx].file, filter) /\ pages[idx].example

\* main(), lines 10-17: a file that is not selected, or has no example directory
\* (build_and_copy_demo returns False), is passed over.
SkipPage ==
    /\ spc = "page"
    /\ idx <= Len(pages)
    /\ ~Eligible
    /\ idx' = idx + 1
    /\ UNCHANGED <<pages, filter, dist, demo, book, book0, spc, sexit, codes, html>>
    /\ SpFrame

\* build_and_copy_demo, lines 23-29: trunk build --release; a non-zero code exits.
Build ==
    /\ spc = "page"
    /\ Eligible
    /\ \E code \in BuildCodes :
          /\ codes' = Append(codes, code)
          /\ IF BuildFailed(code)
             THEN /\ spc' = "exited"
                  /\ sexit' = code
                  /\ dist' = dist
             ELSE /\ spc' = "copy"
                  /\ sexit' = sexit
                  /\ \E d \in DemoDocs : dist' = [dist EXCEPT ![idx] = d]
    /\ UNCHANGED <<pages, filter, demo, book, book0, idx, html>>
    /\ SpFrame

\* build_and_copy_demo, lines 31-37: shutil.copytree of dist to the book's demo dir
Copy ==
    /\ spc = "copy"
    /\ demo' = [demo EXCEPT ![idx] = dist[idx]]
    /\ spc' = "splice"
    /\ UNCHANGED <<pages, filter, dist, book, book0, idx, sexit, codes, html>>
    /\ SpFrame

\* build_and_copy_demo, lines 39-65: the demo page is read and its paths rewritten,
\* the book page is read, split and written back with the demo's fragments.
Splice ==
    /\ spc = "splice"
    /\ html' = RewriteDemoPaths(PageName(pages[idx].file), demo[idx])
    /\ book' = [book EXCEPT ![idx] = SpliceText(html', book[idx])]
    /\ spc' = "links"
    /\ UNCHANGED <<pages, filter, dist, demo, book0, idx, sexit, codes>>
    /\ SpFrame

\* rewrite_links, lines 70-89, then the next file of the listing
RewriteLinks ==
    /\ spc = "links"
    /\ book' = [book EXCEPT ![idx] = CleanLinks(book[idx])]
    /\ idx' = idx + 1
    /\ spc' = "page"
    /\ UNCHANGED <<pages, filter, dist, demo, book0, sexit, codes, html>>
    /\ SpFrame

\* the listing is exhausted: main() returns
Finish ==
    /\ spc = "page"
    /\ idx > Len(pages)
    /\ spc' = "done"
    /\ UNCHANGED <<pages, filter, dist, demo, book, book0, idx, sexit, codes, html>>
    /\ SpFrame

SpNext == SkipPage \/ Build \/ Copy \/ Splice \/ RewriteLinks \/ Finish

-----------------------------------------------------------------------------
(* Scaffold Generator: template/modify_files.py                              *)

MaxInserts == 2

\* The printable ASCII characters in code point order, from the space (32) on.
Ascii ==
    <<" ", "!", "\"", "#", "$", "%", "&", "'", "(", ")", "*", "+", ",", "-", ".", "/", "0", "1", "2", "3", "4", "5", "6", "7", "8", "9", ":", ";", "<", "=", ">", "?", "@", "A", "B", "C", "D", "E", "F", "G", "H", "I", "J", "K", "L", "M", "N", "O", "P", "Q", "R", "S", "T", "U", "V", "W", "X", "Y", "Z", "[", "\\", "]", "^", "_", BT, "a", "b", "c", "d", "e", "f", "g", "h", "i", "j", "k", "l", "m", "n", "o", "p", "q", "r", "s", "t", "u", "v", "w", "x", "y", "z", "{", "|", "}", "~">>

\* ord(ch)
Code(ch) ==
    IF ch = "\t" THEN 9
    ELSE IF ch = "\n" THEN 10
    ELSE IF ch = ROCKET THEN 128640
    ELSE 31 + Min({i \in 1..Len(Ascii) : Ascii[i] = ch})

\* ch.lower(), as re.IGNORECASE compares
Lower(ch) ==
    IF Code(ch) >= 65 /\ Code(ch) <= 90 THEN Ascii[Code(ch) + 32 - 31] ELSE ch

\* a < b on Python strings
RECURSIVE StrLess(_, _)
StrLess(a, b) ==
    IF b = <<>> THEN FALSE
    ELSE IF a = <<>> THEN TRUE
    ELSE IF a[1] = b[1] THEN StrLess(Tail(a), Tail(b))
    ELSE Code(a[1]) < Code(b[1])

RECURSIVE InsertSorted(_, _)
InsertSorted(l, x) ==
    IF l = <<>> THEN <<x>>
    ELSE IF StrLess(x, l[1]) THEN <<x>> \o l
    ELSE <<l[1]>> \o InsertSorted(Tail(l), x)

\* Sorted with the sort left out
NoSort(l) == l

\* list.sort() on a list of strings
RECURSIVE Sorted(_)
Sorted(l) == IF l = <<>> THEN <<>> ELSE InsertSorted(Sorted(Tail(l)), l[1])

\* filter(lambda x: x.strip() != "", l)
RECURSIVE NonBlank(_)
NonBlank(l) ==
    IF l = <<>> THEN <<>>
    ELSE IF strip(l[1]) # <<>> THEN <<l[1]>> \o NonBlank(Tail(l))
    ELSE NonBlank(Tail(l))

\* modify_workspace, lines 23-39: the new contents of examples/Cargo.toml
WorkspaceText(function_name, config_source) ==
    LET halves  == Split1(config_source, <<"m", "e", "m", "b", "e", "r", "s", " ", "=", " ", "[", "\n">>)
        parts   == Split1(halves[2], <<"]">>)
        after   == IF Len(parts) > 1 THEN parts[2] ELSE <<>>
        members == Sorted(Append(splitlines(parts[1]),
                                 <<" ", " ", " ", " ", "\"">> \o function_name \o <<"\"", ",">>))
    IN  halves[1] \o <<"m", "e", "m", "b", "e", "r", "s", " ", "=", " ", "[", "\n">> \o Join(members, <<"\n">>) \o <<"\n", "]">> \o after

\* re.search(rf"# @?{args.category}\n\n", summary_source, re.IGNORECASE): whether
\* the pattern matches at position i, and the position after the match (m.end(),
\* which as a 0-based offset is the length of summary_source[:m.end()])
HeadingAt(s, i, cat, at) ==
    /\ MatchAt(s, i, <<"#", " ">> \o at)
    /\ i + 1 + Len(at) + Len(cat) + 2 <= Len(s)
    /\ \A k \in 1..Len(cat) : Lower(s[i + 1 + Len(at) + k]) = Lower(cat[k])
    /\ s[i + 2 + Len(at) + Len(cat)] = "\n"
    /\ s[i + 3 + Len(at) + Len(cat)] = "\n"

HeadingStarts(s, cat) ==
    {i \in 1..Len(s) : HeadingAt(s, i, cat, <<"@">>) \/ HeadingAt(s, i, cat, <<>>)}

HeadingEnd(s, cat) ==
    LET i == Min(HeadingStarts(s, cat))
    IN  IF HeadingAt(s, i, cat, <<"@">>) THEN i + 4 + Len(cat) ELSE i + 3 + Len(cat)

\* the link line of modify_summarymd
function_link(function_name, cat) ==
    <<"-", " ", "[">> \o function_name \o <<"]", "(">> \o cat \o <<"/">> \o function_name \o <<".", "m", "d", ")">>

\* modify_summarymd, lines 50-63: the new contents of SUMMARY.md when the
\* category's heading is found
SummaryText(function_name, cat, summary_source) ==
    LET e         == HeadingEnd(summary_source, cat)
        parts     == Split1(Tail_(summary_source, e + 1), <<"\n", "#", " ">>)
        after     == IF Len(parts) > 1 THEN <<"\n", "#", " ">> \o parts[2] ELSE <<>>
        functions == Sorted(Append(NonBlank(splitlines(parts[1])),
                                   function_link(function_name, cat)))
    IN  SubSeq(summary_source, 1, e) \o Join(functions, <<"\n">>) \o <<"\n">> \o after

\* modify_librs with args.module and args.feature None, lines 92-103
LibrsText(function_name, lib_source) ==
    Replace(Replace(lib_source, <<"m", "o", "d", " ", "o", "n", "_", "c", "l", "i", "c", "k", "_", "o", "u", "t", "s", "i", "d", "e", ";">>,
                    <<"m", "o", "d", " ", "o", "n", "_", "c", "l", "i", "c", "k", "_", "o", "u", "t", "s", "i", "d", "e", ";", "\n", "m", "o", "d", " ">> \o function_name \o <<";">>),
            <<"p", "u", "b", " ", "u", "s", "e", " ", "o", "n", "_", "c", "l", "i", "c", "k", "_", "o", "u", "t", "s", "i", "d", "e", ":", ":", "*", ";">>,
            <<"p", "u", "b", " ", "u", "s", "e", " ", "o", "n", "_", "c", "l", "i", "c", "k", "_", "o", "u", "t", "s", "i", "d", "e", ":", ":", "*", ";", "\n", "p", "u", "b", " ", "u", "s", "e", " ">> \o function_name \o <<":", ":", "*", ";">>)

\* for line in changelog_source: if line.startswith("## [Unreleased"), lines 114-118
UnreleasedHeadingExists(ls) ==
    \E k \in 1..Len(ls) : StartsWith(ls[k], <<"#", "#", " ", "[", "U", "n", "r", "e", "l", "e", "a", "s", "e", "d">>)

\* the loop of lines 124-130: the first line that is a "### New Functions" heading
\* or the heading of a release decides
NewFunctionHeadingExists(ls) ==
    LET stops == {k \in 1..Len(ls) :
                     \/ StartsWith(ls[k], <<"#", "#", "#", " ", "N", "e", "w", " ", "F", "u", "n", "c", "t", "i", "o", "n", "s">>)
                     \/ (StartsWith(ls[k], <<"#", "#", " ", "[">>)
                         /\ ~StartsWith(ls[k], <<"#", "#", " ", "[", "U", "n", "r", "e", "l", "e", "a", "s", "e", "d">>))}
    IN  stops # {} /\ StartsWith(ls[Min(stops)], <<"#", "#", "#", " ", "N", "e", "w", " ", "F", "u", "n", "c", "t", "i", "o", "n", "s">>)

\* modify_changelog, lines 110-140: the new contents of CHANGELOG.md
ChangelogText(function_name, text) ==
    LET l0 == readlines(text)
        l1 == IF UnreleasedHeadingExists(l0) THEN l0
              ELSE ListInsert(ListInsert(l0, 5, <<"#", "#", " ", "[", "U", "n", "r", "e", "l", "e", "a", "s", "e", "d", "]", " ", "-", " ", "\n">>), 6, <<"\n">>)
        l2 == IF NewFunctionHeadingExists(l1) THEN l1
              ELSE ListInsert(ListInsert(ListInsert(l1, 7,
                       <<"#", "#", "#", " ", "N", "e", "w", " ", "F", "u", "n", "c", "t", "i", "o", "n", "s", " ">> \o <<ROCKET, "\n">>), 8, <<"\n">>), 9, <<"\n">>)
        l3 == ListInsert(l2, 9, <<"-", " ", BT>> \o function_name \o <<BT, "\n">>)
    IN  Join(l3, <<>>)

Names == {<<"a">>, <<"b">>, <<"a", "b">>}

ScaffoldCategories == {<<"e", "l">>, <<"z", "z">>}

ClogsInit ==
    {<<"#", " ", "C", "\n", "\n", "t", "\n", "u", "\n", "\n">>,
     <<"#", " ", "C", "\n", "\n", "t", "\n", "u", "\n", "\n", "#", "#", " ", "[", "0", ".", "1", ".", "0", "]", " ", "-", " ", "d", "\n", "\n", "#", "#", "#", " ", "N", "e", "w", " ", "F", "u", "n", "c", "t", "i", "o", "n", "s", " ">> \o <<ROCKET>> \o <<"\n", "\n", "-", " ", BT, "o", BT, "\n">>}

SummariesInit ==
    {<<"[", "I", "]", "(", ")", "\n", "\n", "#", " ", "E", "l", "\n", "\n", "\n", "#", " ", "O", "t", "\n", "\n", "-", " ", "[", "o", "]", "(", "o", "t", "/", "o", ".", "m", "d", ")", "\n">>,
     <<"#", " ", "@", "E", "l", "\n", "\n">>}

WorkspacesInit ==
    {<<"[", "w", "o", "r", "k", "s", "p", "a", "c", "e", "]", "\n", "m", "e", "m", "b", "e", "r", "s", " ", "=", " ", "[", "\n", "]", "\n">>,
     <<"m", "e", "m", "b", "e", "r", "s", " ", "=", " ", "[", "\n", " ", " ", " ", " ", "\"", "a", "a", "\"", ",", "\n", "]", "\n", "x", " ", "=", " ", "[", "1", "]", "\n">>}

LibrsInit == {<<"m", "o", "d", " ", "o", "n", "_", "c", "l", "i", "c", "k", "_", "o", "u", "t", "s", "i", "d", "e", ";", "\n", "p", "u", "b", " ", "u", "s", "e", " ", "o", "n", "_", "c", "l", "i", "c", "k", "_", "o", "u", "t", "s", "i", "d", "e", ":", ":", "*", ";", "\n">>}

\* the other tools' files and state are not touched
ScFrame == UNCHANGED <<relVars, spVars, exVars>>

ScIdle ==
    /\ fname = <<>> /\ category = <<>> /\ clog = <<>> /\ librs = <<>>
    /\ summary = <<>> /\ workspace = <<>> /\ summary0 = <<>> /\ gpc = "idle"
    /\ inserted = <<>>

ScInit ==
    /\ fname \in Names
    /\ category \in ScaffoldCategories
    /\ clog \in ClogsInit
    /\ librs \in LibrsInit
    /\ summary \in SummariesInit
    /\ workspace \in WorkspacesInit
    /\ summary0 = summary
    /\ gpc = "changelog"
    /\ inserted = <<[name |-> fname, category |-> category]>>

\* main(), line 16
ModifyChangelog ==
    /\ gpc = "changelog"
    /\ clog' = ChangelogText(fname, clog)
    /\ gpc' = "librs"
    /\ UNCHANGED <<fname, category, librs, summary, workspace, summary0, inserted>>
    /\ ScFrame

\* main(), line 17
ModifyLibrs ==
    /\ gpc = "librs"
    /\ librs' = LibrsText(fname, librs)
    /\ gpc' = "modrs"
    /\ UNCHANGED <<fname, category, clog, summary, workspace, summary0, inserted>>
    /\ ScFrame

\* main(), line 18: without --module, modify_modrs does nothing
ModifyModrs ==
    /\ gpc = "modrs"
    /\ gpc' = "summary"
    /\ UNCHANGED <<fname, category, clog, librs, summary, workspace, summary0, inserted>>
    /\ ScFrame

\* main(), line 19.  When the heading is missing the else branch calls println,
\* a name Python does not define: the NameError ends the run.
ModifySummarymd ==
    /\ gpc = "summary"
    /\ IF HeadingStarts(summary, category) # {}
       THEN /\ summary' = SummaryText(fname, category, summary)
            /\ gpc' = "workspace"
       ELSE /\ summary' = summary
            /\ gpc' = "crashed"
    /\ UNCHANGED <<fname, category, clog, librs, workspace, summary0, inserted>>
    /\ ScFrame

\* main(), line 20
ModifyWorkspace ==
    /\ gpc = "workspace"
    /\ workspace' = WorkspaceText(fname, workspace)
    /\ gpc' = "done"
    /\ UNCHANGED <<fname, category, clog, librs, summary, summary0, inserted>>
    /\ ScFrame

\* The tool is run again for a function it was not run for before.
NextFunction ==
    /\ gpc \in {"done", "crashed"}
    /\ Len(inserted) < MaxInserts
    /\ \E n \in Names, c \in ScaffoldCategories :
          /\ \A k \in 1..Len(inserted) : inserted[k].name # n
          /\ fname' = n
          /\ category' = c
          /\ inserted' = Append(inserted, [name |-> n, category |-> c])
    /\ summary0' = summary
    /\ gpc' = "changelog"
    /\ UNCHANGED <<clog, librs, summary, workspace>>
    /\ ScFrame

ScNext ==
    \/ ModifyChangelog \/ ModifyLibrs \/ ModifyModrs \/ ModifySummarymd
    \/ ModifyWorkspace \/ NextFunction

-----------------------------------------------------------------------------
(* Comment Extractor, Link Rewriter, Type Scanner:                           *)
(* docs/book/src/extract_doc_comment.py                                      *)

MaxLines == 4

IsIdentStart(ch) ==
    \/ (Code(ch) >= 97 /\ Code(ch) <= 122)
    \/ (Code(ch) >= 65 /\ Code(ch) <= 90)
    \/ ch = "_"

IsIdentChar(ch) == IsIdentStart(ch) \/ (Code(ch) >= 48 /\ Code(ch) <= 57)

\* re.search(ident_pattern, s): the length of the match of
\* ^[a-zA-Z_][a-zA-Z0-9_]*\b, or 0 when there is none
IdentLen(s) ==
    IF s = <<>> \/ ~IsIdentStart(s[1]) THEN 0
    ELSE LET stops == {k \in 2..Len(s) : ~IsIdentChar(s[k])}
         IN  IF stops = {} THEN Len(s) ELSE Min(stops) - 1

\* the entry append_type adds to types, line 148
TypeLink(ty, ident, mod) ==
    <<"-", " ", "[", BT>> \o ty \o <<" ">> \o ident \o <<BT, "]", "(">> \o DOCS_BASE
        \o (IF mod # None THEN <<"/">> \o mod ELSE <<>>)
        \o <<"/">> \o ty \o <<".">> \o ident \o <<".", "h", "t", "m", "l", ")">>

\* append_type, lines 137-148
append_type(line, ty, tys, mod) ==
    LET rest == Tail_(line, Len(<<"p", "u", "b", " ">> \o ty \o <<" ">>) + 1)
        n    == IdentLen(rest)
    IN  IF n > 0 THEN Append(tys, TypeLink(ty, SubSeq(rest, 1, n), mod)) ELSE tys

\* process_further_line without its struct branch
enum_only(line, tys, mod) ==
    IF StartsWith(line, <<"p", "u", "b", " ", "e", "n", "u", "m">>) THEN append_type(line, <<"e", "n", "u", "m">>, tys, mod)
    ELSE tys

\* process_further_line, lines 125-129
process_further_line(line, tys, mod) ==
    IF StartsWith(line, <<"p", "u", "b", " ", "e", "n", "u", "m">>) THEN append_type(line, <<"e", "n", "u", "m">>, tys, mod)
    ELSE IF StartsWith(line, <<"p", "u", "b", " ", "s", "t", "r", "u", "c", "t">>) THEN append_type(line, <<"s", "t", "r", "u", "c", "t">>, tys, mod)
    ELSE tys

\* the position of the "]" that ends a match of internal_doc_link_pattern,
\* \[`([^]]+)\`](?!\(), starting at position p, or 0 when there is no match at p
LinkEnd(s, p) ==
    IF ~MatchAt(s, p, <<"[", BT>>) THEN 0
    ELSE LET closes == {r \in (p + 2)..Len(s) : s[r] = "]"}
         IN  IF closes = {} THEN 0
             ELSE LET r == Min(closes)
                  IN  IF /\ r >= p + 4
                         /\ s[r - 1] = BT
                         /\ (r = Len(s) \/ s[r + 1] # "(")
                      THEN r ELSE 0

\* f"{module}" after "if module is not None: module = f'/{module}'", lines 115-116
ModuleSegment(mod) == IF mod # None THEN <<"/">> \o mod ELSE <<"N", "o", "n", "e">>

\* re.sub(internal_doc_link_pattern, rf"[`\1`](...{module}/fn.\1.html)", line)
RECURSIVE SubLinks(_, _)
SubLinks(s, mod) ==
    LET starts == {p \in 1..Len(s) : LinkEnd(s, p) # 0}
    IN  IF starts = {} THEN s
        ELSE LET p == Min(starts)
                 r == LinkEnd(s, p)
                 x == SubSeq(s, p + 2, r - 2)
             IN  SubSeq(s, 1, p - 1)
                     \o <<"[", BT>> \o x \o <<BT, "]", "(">> \o DOCS_BASE \o ModuleSegment(mod)
                     \o <<"/", "f", "n", ".">> \o x \o <<".", "h", "t", "m", "l", ")">>
                     \o SubLinks(Tail_(s, r + 1), mod)

\* stripped.startswith("[Link to Demo](https://"), line 108
IsDemoLink(line) == StartsWith(strip(line), <<"[", "L", "i", "n", "k", " ", "t", "o", " ", "D", "e", "m", "o", "]", "(", "h", "t", "t", "p", "s", ":", "/", "/">>)

\* process_line, lines 104-122
process_line(line, mod) ==
    IF IsDemoLink(line)
    THEN LET example_link ==
                 Replace(Replace(strip(line), <<"[", "L", "i", "n", "k", " ", "t", "o", " ", "D", "e", "m", "o", "]", "(">>, <<>>), <<")">>, <<>>)
         IN  <<"<", "d", "i", "v", " ", "c", "l", "a", "s", "s", "=", "\"", "d", "e", "m", "o", "-", "c", "o", "n", "t", "a", "i", "n", "e", "r", "\"", ">", "\n", " ", " ", " ", " ", "<", "a", " ", "c", "l", "a", "s", "s", "=", "\"", "d", "e", "m", "o", "-", "s", "o", "u", "r", "c", "e", "\"", " ", "h", "r", "e", "f", "=", "\"">>
                 \o example_link
                 \o <<"/", "s", "r", "c", "/", "m", "a", "i", "n", ".", "r", "s", "\"", " ", "t", "a", "r", "g", "e", "t", "=", "\"", "_", "b", "l", "a", "n", "k", "\"", ">", "s", "o", "u", "r", "c", "e", " ", "<", "i", " ", "c", "l", "a", "s", "s", "=", "\"", "f", "a", " ", "f", "a", "-", "g", "i", "t", "h", "u", "b", "\"", ">", "<", "/", "i", ">", "<", "/", "a", ">", "\n", " ", " ", " ", " ", "<", "d", "i", "v", " ", "i", "d", "=", "\"", "d", "e", "m", "o", "-", "a", "n", "c", "h", "o", "r", "\"", ">", "<", "/", "d", "i", "v", ">", "\n", "<", "/", "d", "i", "v", ">">>
    ELSE SubLinks(line, mod)

\* stripped_line.startswith("///") or stripped_line.startswith("#[doc ="), line 50
IsDocLine(stripped) == StartsWith(stripped, <<"/", "/", "/">>) \/ StartsWith(stripped, <<"#", "[", "d", "o", "c", " ", "=">>)

\* lines 53-56: the marker is taken off the line
StripMarker(line, stripped) ==
    IF StartsWith(line, <<"#", "[", "d", "o", "c">>)
    THEN LET t == Replace(Replace(stripped, <<"#", "[", "d", "o", "c", " ", "=", " ", "\"", " ">>, <<>>), <<"#", "[", "d", "o", "c", " ", "=", " ", "\"">>, <<>>)
         IN  SubSeq(t, 1, Len(t) - 2)
    ELSE Replace(Replace(stripped, <<"/", "/", "/", " ">>, <<>>), <<"/", "/", "/">>, <<>>)

\* lines 58-61: the opening fence gets its language tag
Fence(line, in_block) ==
    IF Contains(line, <<BT, BT, BT>>) /\ ~in_block
    THEN Replace(line, <<BT, BT, BT>>, <<BT, BT, BT, "r", "u", "s", "t", ",", "i", "g", "n", "o", "r", "e">>)
    ELSE line

\* Branch with the doc-comment test made before the test of initial_doc_finished
BranchReentering(finished, started, stripped) ==
    IF IsDocLine(stripped) THEN "doc"
    ELSE IF finished THEN "further"
    ELSE IF started THEN "end"
    ELSE "skip"

\* the if / elif chain of the loop, lines 47-68
Branch(finished, started, stripped) ==
    IF finished THEN "further"
    ELSE IF IsDocLine(stripped) THEN "doc"
    ELSE IF started THEN "end"
    ELSE "skip"

FileLines ==
    {<<"/", "/", "/", " ", "[", BT, "x", BT, "]", " ", "[", BT, "y", BT, "]", "(", "u", ")", "\n">>,
     <<" ", " ", "/", "/", "/", " ", BT, BT, BT, "\n">>,
     <<"#", "[", "d", "o", "c", " ", "=", " ", "\"", " ", "[", "L", "i", "n", "k", " ", "t", "o", " ", "D", "e", "m", "o", "]", "(", "h", "t", "t", "p", "s", ":", "/", "/", "d", ")", "\"", "]", "\n">>,
     <<"p", "u", "b", " ", "s", "t", "r", "u", "c", "t", " ", "F", "o", "o", " ", "{", "\n">>,
     <<"p", "u", "b", " ", "f", "n", " ", "b", "a", "r", "(", ")", "\n">>,
     <<"p", "u", "b", " ", "e", "n", "u", "m", " ", "B", "a", "z", "\n">>,
     <<"p", "u", "b", " ", "e", "n", "u", "m", "e", "r", "a", "t", "e", "\n">>}

Modules == {None, <<"m">>}

\* the other tools' files and state are not touched
ExFrame == UNCHANGED <<relVars, spVars, scVars>>

ExIdle ==
    /\ lines = <<>> /\ module = None /\ pos = 0 /\ in_code_block = FALSE
    /\ doc_comment_started = FALSE /\ initial_doc_finished = FALSE
    /\ printed = <<>> /\ linkIn = <<>> /\ types = <<>> /\ xpc = "idle"

ExInit ==
    /\ lines \in UNION {[1..n -> FileLines] : n \in 1..MaxLines}
    /\ module \in Modules
    /\ pos = 0
    /\ in_code_block = FALSE
    /\ doc_comment_started = FALSE
    /\ initial_doc_finished = FALSE
    /\ printed = <<>>
    /\ linkIn = <<>>
    /\ types = <<>>
    /\ xpc = "loop"

\* one iteration of "for line in f.readlines()", lines 44-68
ReadLine ==
    /\ xpc = "loop"
    /\ pos < Len(lines)
    /\ pos' = pos + 1
    /\ LET line     == lines[pos + 1]
           stripped == strip(line)
           branch   == Branch(initial_doc_finished, doc_comment_started, stripped)
           text     == Fence(StripMarker(line, stripped), in_code_block)
       IN  /\ types' = IF branch = "further"
                       THEN process_further_line(line, types, module) ELSE types
           /\ doc_comment_started' = (doc_comment_started \/ branch = "doc")
           /\ initial_doc_finished' = (initial_doc_finished \/ branch = "end")
           /\ in_code_block' =
                  IF branch = "doc" /\ Contains(StripMarker(line, stripped), <<BT, BT, BT>>)
                  THEN ~in_code_block ELSE in_code_block
           /\ linkIn' = IF branch = "doc" THEN Append(linkIn, text) ELSE linkIn
           /\ printed' = IF branch = "doc"
                         THEN Append(printed, process_line(text, module)) ELSE printed
    /\ UNCHANGED <<lines, module, xpc>>
    /\ ExFrame

\* the file is read: lines 70-74 print the feature, types and source paragraphs
EndOfFile ==
    /\ xpc = "loop"
    /\ pos = Len(lines)
    /\ xpc' = "done"
    /\ UNCHANGED <<lines, module, pos, in_code_block, doc_comment_started,
                   initial_doc_finished, printed, linkIn, types>>
    /\ ExFrame

ExNext == ReadLine \/ EndOfFile

-----------------------------------------------------------------------------
(* The specifications: one per tool.                                         *)

InitRelease == RelInit /\ SpIdle /\ ScIdle /\ ExIdle
SpecRelease == InitRelease /\ [][RelNext]_vars

InitSplice == SpInit /\ RelIdle /\ ScIdle /\ ExIdle
SpecSplice == InitSplice /\ [][SpNext]_vars

InitScaffold == ScInit /\ RelIdle /\ SpIdle /\ ExIdle
SpecScaffold == InitScaffold /\ [][ScNext]_vars

InitExtract == ExInit /\ RelIdle /\ SpIdle /\ ScIdle
SpecExtract == InitExtract /\ [][ExNext]_vars

-----------------------------------------------------------------------------
(* The claims of the specification, each stated against the model.           *)

\* ---- Release Doc Updater

\* C1: applying a release mutator twice equals applying it once, for the
\* compatibility table (whichever of its three cases applies to the last row) and
\* for the changelog heading on the same date.
C1_MutatorsIdempotent ==
    rpc # "idle" =>
        LET l  == cargo.leptos
            c  == crate_version_short(cargo)
            v  == crate_version_long(cargo)
            t1 == add_to_compat_table(l, c, readme)
            h1 == replace_in_changelog(v, today, changelog)
        IN  /\ add_to_compat_table(l, c, t1) = t1
            /\ replace_in_changelog(v, today, h1) = h1

\* C2: a run with --check never writes README.md or CHANGELOG.md: at every point
\* of such a run both files are as they were when the run started.
C2_CheckNeverWrites ==
    (Len(argv) > 1 /\ argv[2] = "--check") =>
        /\ readme = readme0
        /\ changelog = changelog0

\* a --check run that found README.md up to date and CHANGELOG.md not, and quit
C2_Witness ==
    /\ Len(argv) > 1 /\ argv[2] = "--check"
    /\ rpc = "exited"
    /\ rexit = 1
    /\ add_to_compat_table(cargo.leptos, crate_version_short(cargo), readme) = readme
    /\ Contains(changelog, <<"#", "#", " ", "[", "U", "n", "r", "e", "l", "e", "a", "s", "e", "d", "]", " ", "-">>)

\* ---- Post-Build Splicer

\* C3: a build that returns a non-zero code c ends the run with exit code c; the
\* page's book HTML is not rewritten, no later page is built, copied or rewritten;
\* the exit code is the first non-zero build code, and 0 when every build succeeds.
C3_BuildFailureAborts ==
    /\ spc = "exited" =>
          /\ codes # <<>>
          /\ sexit = codes[Len(codes)]
          /\ sexit # 0
          /\ \A k \in 1..(Len(codes) - 1) : codes[k] = 0
          /\ \A j \in idx..Len(pages) :
                book[j] = book0[j] /\ demo[j] = Absent
          /\ \A j \in (idx + 1)..Len(pages) : dist[j] = Absent
          /\ ~ENABLED SpNext
    /\ spc = "done" =>
          /\ sexit = 0
          /\ \A k \in 1..Len(codes) : codes[k] = 0

\* the first page was built and spliced, the build of the second returned 2 and a
\* third page with an example is left
C3_Witness ==
    /\ spc = "exited"
    /\ sexit = 2
    /\ Len(codes) = 2
    /\ idx < Len(pages)
    /\ pages[idx + 1].example
    /\ Selected(pages[idx + 1].file, filter)

\* the pieces a page is made of
Decompositions(doc) == {p \in Parts : Assemble(p) = doc}

\* the text of t between the first open and the first close after it
Between(t, open, close) ==
    LET i == Find(t, open, 1)
        j == Find(t, close, i + Len(open))
    IN  SubSeq(t, i + Len(open), j - 1)

\* C4 as stated: after splicing, the page's <head> content is exactly the demo's
\* head fragment followed by the book page's, its <body> content exactly the demo's
\* body fragment followed by the book page's, with the text before the original
\* <head> and after the original </body> around them.
C4_SpliceExact ==
    spc = "links" =>
        \A p \in Decompositions(book0[idx]) :
            /\ Between(book[idx], <<"<", "h", "e", "a", "d", ">">>, <<"<", "/", "h", "e", "a", "d", ">">>)
                   = Between(html, <<"<", "h", "e", "a", "d", ">">>, <<"<", "/", "h", "e", "a", "d", ">">>) \o p.head
            /\ Between(book[idx], <<"<", "b", "o", "d", "y", ">">>, <<"<", "/", "b", "o", "d", "y", ">">>)
                   = Between(html, <<"<", "b", "o", "d", "y", ">">>, <<"<", "/", "b", "o", "d", "y", ">">>) \o p.body
            /\ StartsWith(book[idx], p.pre \o <<"<", "h", "e", "a", "d", ">">>)
            /\ EndsWith(book[idx], <<"<", "/", "b", "o", "d", "y", ">">> \o p.post)

IndentedLine(t) == <<"\n", " ", " ", " ", " ">> \o t

\* C4, amended: after splicing, the page is the text before the original <head>,
\* a space and a line end, <head>, the demo's head fragment and then the book
\* page's, each on an indented line of its own, </head>, a bare <body>, the demo's
\* body fragment and then the book page's, each on an indented line of its own,
\* </body>, a line end and the text after the original </body>.
C4_SpliceOrder ==
    spc = "links" =>
        \A p \in Decompositions(book0[idx]), d \in Decompositions(demo[idx]) :
            LET name == PageName(pages[idx].file)
            IN  book[idx] =
                    p.pre \o <<" ", "\n", "<", "h", "e", "a", "d", ">">>
                        \o IndentedLine(RewriteDemoPaths(name, d.head))
                        \o IndentedLine(p.head)
                        \o <<"\n", "<", "/", "h", "e", "a", "d", ">", "\n", "<", "b", "o", "d", "y", ">">>
                        \o IndentedLine(RewriteDemoPaths(name, d.body))
                        \o IndentedLine(p.body)
                        \o <<"\n", "<", "/", "b", "o", "d", "y", ">", "\n">> \o p.post

\* a page whose body tag carries attributes was spliced with a demo whose script
\* path starts with /demo
C4_Witness ==
    /\ spc = "links"
    /\ Decompositions(book0[idx]) # {}
    /\ Decompositions(demo[idx]) # {}
    /\ Contains(book0[idx], <<"<", "b", "o", "d", "y", " ", "c", "l", "a", "s", "s", "=", "x", ">">>)
    /\ Contains(demo[idx], <<"s", "r", "c", "=", "/", "d", "e", "m", "o", "/", "a">>)

\* the rewriting C5 describes: a path that begins with ./demo or with /demo
\* begins with ./{name}/demo afterwards
RECURSIVE ClaimedDemoPaths(_, _)
ClaimedDemoPaths(name, t) ==
    IF t = <<>> THEN <<>>
    ELSE IF StartsWith(t, <<".", "/", "d", "e", "m", "o">>)
    THEN <<".", "/">> \o name \o <<"/", "d", "e", "m", "o">> \o ClaimedDemoPaths(name, Tail_(t, 7))
    ELSE IF StartsWith(t, <<"/", "d", "e", "m", "o">>)
    THEN <<".", "/">> \o name \o <<"/", "d", "e", "m", "o">> \o ClaimedDemoPaths(name, Tail_(t, 6))
    ELSE <<t[1]>> \o ClaimedDemoPaths(name, Tail(t))

\* C5: when the demo's entry HTML is read for splicing, every asset path beginning
\* with /demo and every asset path beginning with ./demo is rewritten to begin
\* with ./{name}/demo.
C5_DemoPathsRewritten ==
    spc = "links" =>
        html = ClaimedDemoPaths(PageName(pages[idx].file), demo[idx])

\* ---- Scaffold Generator

\* the line modify_workspace adds for a function
MemberLine(n) == <<" ", " ", " ", " ", "\"">> \o n \o <<"\"", ",">>

\* C6: when the category heading is absent from SUMMARY.md the run leaves
\* SUMMARY.md unchanged, still adds the entry to the workspace member list, and
\* ends normally.
C6_MissingSectionNonFatal ==
    (gpc \in {"done", "crashed"} /\ HeadingStarts(summary0, category) = {}) =>
        /\ gpc = "done"
        /\ summary = summary0
        /\ \E k \in 1..Len(splitlines(workspace)) :
              splitlines(workspace)[k] = MemberLine(fname)

\* l[i] <= l[j] for i < j
InOrder(l) == \A i, j \in 1..Len(l) : i < j => ~StrLess(l[j], l[i])

\* the lines of l from the one after position h up to the first that starts
\* with stop
LinesUntil(l, h, stop) ==
    LET stops == {k \in (h + 1)..Len(l) : StartsWith(l[k], stop)}
    IN  SubSeq(l, h + 1, IF stops = {} THEN Len(l) ELSE Min(stops) - 1)

\* the entries of the workspace member list: the lines between "members = [" and
\* the closing bracket
WorkspaceEntries ==
    LET l == splitlines(workspace)
        h == Min({k \in 1..Len(l) : l[k] = <<"m", "e", "m", "b", "e", "r", "s", " ", "=", " ", "[">>})
    IN  LinesUntil(l, h, <<"]">>)

\* the entries of the SUMMARY.md section of category cat
SummaryEntries(cat) ==
    LET l == splitlines(summary)
        IsHeading(x) ==
            /\ Len(x) \in {2 + Len(cat), 3 + Len(cat)}
            /\ [k \in 1..Len(x) |-> Lower(x[k])] \in {<<"#", " ">> \o cat, <<"#", " ", "@">> \o cat}
        heads == {k \in 1..Len(l) : IsHeading(l[k])}
    IN  IF heads = {} THEN <<>>
        ELSE NonBlank(LinesUntil(l, Min(heads), <<"#", " ">>))

\* the bullets under the first "### New Functions" heading of CHANGELOG.md
ChangelogBullets ==
    LET l == splitlines(clog)
        heads == {k \in 1..Len(l) : StartsWith(l[k], <<"#", "#", "#", " ", "N", "e", "w", " ", "F", "u", "n", "c", "t", "i", "o", "n", "s">>)}
    IN  IF heads = {} THEN <<>>
        ELSE NonBlank(LinesUntil(l, Min(heads), <<"#">>))

Bullet(n) == <<"-", " ", BT>> \o n \o <<BT>>

\* every completed insertion found its section empty or made by earlier insertions
FromEmptyChangelog == Len(ChangelogBullets) = Len(inserted)

ClaimedSegment(mod) == IF mod # None THEN <<"/">> \o mod ELSE <<>>

\* the rewriting C7 describes
RECURSIVE ClaimedLinks(_, _)
ClaimedLinks(s, mod) ==
    IF s = <<>> THEN <<>>
    ELSE IF LinkEnd(s, 1) # 0
    THEN LET r == LinkEnd(s, 1)
             x == SubSeq(s, 3, r - 2)
         IN  <<"[", BT>> \o x \o <<BT, "]", "(">> \o DOCS_BASE \o ClaimedSegment(mod) \o <<"/", "f", "n", ".">>
                 \o x \o <<".", "h", "t", "m", "l", ")">> \o ClaimedLinks(Tail_(s, r + 1), mod)
    ELSE <<s[1]>> \o ClaimedLinks(Tail(s), mod)

\* C7: for every doc line that is not a demo-link line, process_line replaces every
\* [`X`] not followed by ( with [`X`](DOCS_BASE/{module/}fn.X.html), the module
\* segment being absent when no module is given, and changes nothing else.
C7_LinksRewritten ==
    \A k \in 1..Len(printed) :
        ~IsDemoLink(linkIn[k]) => printed[k] = ClaimedLinks(linkIn[k], module)

\* whether line k of the file is a doc-comment line
DocAt(k) == IsDocLine(strip(lines[k]))

\* the first doc-comment line among the lines read so far, or 0
FirstDoc ==
    LET d == {k \in 1..pos : DocAt(k)} IN IF d = {} THEN 0 ELSE Min(d)

\* the last line of the first run of doc-comment lines, among the lines read
LastDoc ==
    LET ends == {k \in (FirstDoc + 1)..pos : ~DocAt(k)}
    IN  IF FirstDoc = 0 THEN 0 ELSE IF ends = {} THEN pos ELSE Min(ends) - 1

\* whether an identifier of n characters starts at position o + 1 of line x
IdentAt(x, o, n) ==
    /\ n >= 1
    /\ o + n <= Len(x)
    /\ IsIdentStart(x[o + 1])
    /\ \A k \in 1..n : IsIdentChar(x[o + k])
    /\ (o + n = Len(x) \/ ~IsIdentChar(x[o + n + 1]))

\* a declaration as C8 describes it: the prefix, a space, the identifier; the
\* offset of the identifier, or -1
PrefixThenIdent(x) ==
    IF StartsWith(x, <<"p", "u", "b", " ", "e", "n", "u", "m", " ">>) THEN 9
    ELSE IF StartsWith(x, <<"p", "u", "b", " ", "s", "t", "r", "u", "c", "t", " ">>) THEN 11
    ELSE 0 - 1

\* a declaration as the scanner takes it: the keyword, one character whatever it
\* is, the identifier; the offset of the identifier, or -1
KeywordThenIdent(x) ==
    IF StartsWith(x, <<"p", "u", "b", " ", "e", "n", "u", "m">>) THEN 9
    ELSE IF StartsWith(x, <<"p", "u", "b", " ", "s", "t", "r", "u", "c", "t">>) THEN 11
    ELSE 0 - 1

\* the entries of the lines from..pos, one for each line that is a declaration
RECURSIVE EntriesFrom(_, _)
EntriesFrom(from, spaced) ==
    IF from > pos THEN <<>>
    ELSE LET x    == lines[from]
             o    == IF spaced THEN PrefixThenIdent(x) ELSE KeywordThenIdent(x)
             kind == IF StartsWith(x, <<"p", "u", "b", " ", "e", "n", "u", "m">>) THEN <<"e", "n", "u", "m">> ELSE <<"s", "t", "r", "u", "c", "t">>
             ns   == {n \in 1..Len(x) : o >= 0 /\ IdentAt(x, o, n)}
         IN  (IF ns = {} THEN <<>>
              ELSE <<TypeLink(kind, SubSeq(x, o + 1, o + Min(ns)), module)>>)
                 \o EntriesFrom(from + 1, spaced)

Unmarked(k) == StripMarker(lines[k], strip(lines[k]))

\* whether line k of the doc block is inside a fenced code block as it is read
InFence(k) ==
    Cardinality({j \in FirstDoc..(k - 1) : Contains(Unmarked(j), <<BT, BT, BT>>)}) % 2 = 1

\* C10: the extractor's phase only moves forward: the lines printed as doc body are
\* those of the first run of consecutive doc-comment lines and no others, whatever
\* follows; a file without doc-comment lines prints no doc body.
C10_OnlyFirstBlock ==
    /\ doc_comment_started = (FirstDoc # 0)
    /\ initial_doc_finished = (FirstDoc # 0 /\ LastDoc < pos)
    /\ Len(printed) = (IF FirstDoc = 0 THEN 0 ELSE LastDoc - FirstDoc + 1)
    /\ \A k \in 1..Len(printed) :
          printed[k] = process_line(Fence(Unmarked(FirstDoc + k - 1),
                                          InFence(FirstDoc + k - 1)), module)

\* a doc line, a line of code, another doc line: the file is read and one line
\* was printed
C10_Witness ==
    /\ xpc = "done"
    /\ Len(lines) >= 3
    /\ DocAt(1) /\ ~DocAt(2) /\ DocAt(3)
    /\ Len(printed) = 1

====
